---- MODULE Spec2Model ----
(***************************************************************************)
(* Ginkgo: the value representation (SVal / HVal / Object / RootedObject), *)
(* the VM's operations on the garbage-collected heap, and the renderer.    *)
(*                                                                         *)
(* The heap itself (Heap<HVal>, Handle<HVal>, Rooted<HVal>) is the arena   *)
(* of the specification, sections 3, 4.2, 4.3 and 4.5: slots with a        *)
(* generation, free-slot reuse, a Root Table with one count per rooted     *)
(* handle, and a stop-the-world mark and sweep.  Its definitions are the   *)
(* heap_* operators; everything else is translated from src/src/lib.rs     *)
(* and, for the string codec, from src/src/string.rs.                      *)
(***************************************************************************)
EXTENDS Integers, Sequences, FiniteSets, TLC

\* Bounds of the model.
MaxInserts == 2     \* cons / vec / string calls in one run
MaxVecLen == 2      \* largest len given to vec (indices up to MaxVecLen are tried)
MaxRoots == 2       \* RootedObject::H values alive at once
MaxReuseInserts == 3  \* cons / vec calls in one run of SpecReuse
MaxText == 2        \* length of the texts made of any characters of CodecChars

VARIABLES
    slots,    \* heap arena: sequence of [gen, occ, val]
    marks,    \* the handles marked by a collection under way (none when idle)
    roots,    \* Root Table: handle -> number of registrations
    issued,   \* every handle an insertion has returned (the caller's Objects)
    held,     \* the caller's live RootedObject::H values: handle -> how many
    kept,     \* the handles that were live after some gc() (history)
    last      \* the last &mut self operation: its name, its object, its result

vars == <<slots, marks, roots, issued, held, kept, last>>

----------------------------------------------------------------------------
\* Values

\* SVal: tag and payload (Bool: 0 / 1; Float: the payload counts tenths).
SVal(tag, n) == [tag |-> tag, n |-> n]

\* The f64 payload that is not a number (the high word of f64::NAN's bits);
\* every other payload of a Float is a number of tenths.
NaN == 2146959360

\* Object::S(v) and Object::H(handle); a handle is (slot, generation).
ObjS(v) == [k |-> "S", tag |-> v.tag, a |-> v.n, b |-> 0]
ObjH(slot, gen) == [k |-> "H", tag |-> "Handle", a |-> slot, b |-> gen]

Nil == ObjS(SVal("Nil", 0))
Undef == ObjS(SVal("Undefined", 0))
True == ObjS(SVal("Bool", 1))
False == ObjS(SVal("Bool", 0))

\* What a call returns: the kind of result and its value.
Res(t, o) == [t |-> t, o |-> o]

\* HVal::Cons(car, cdr), HVal::Vec(vec), HVal::String(s)
HVal_Cons(car_, cdr_) == [kind |-> "Cons", objs |-> <<car_, cdr_>>, text |-> <<>>]
HVal_Vec(elems) == [kind |-> "Vec", objs |-> elems, text |-> <<>>]
HVal_String(s) == [kind |-> "String", objs |-> <<>>, text |-> s]
NoVal == [kind |-> "Free", objs |-> <<>>, text |-> <<>>]

\* Inputs of the runs: the immediates and texts the caller passes.
IntInputs == {0, 1}
FloatInputs == {0}
Consts == {Nil, Undef, True, False}
StoreImms == {Nil}
TextInputs == {<<97>>}

\* The Objects a caller can pass: immediates and every handle it was given.
Args == StoreImms \cup issued

----------------------------------------------------------------------------
\* Heap<HVal>

heap_contains(h) ==
    /\ h.a \in 1..Len(slots)
    /\ slots[h.a].occ
    /\ slots[h.a].gen = h.b

\* Heap::get / Heap::get_mut: the value iff the generation matches.
heap_get(h) == IF heap_contains(h) THEN slots[h.a].val ELSE NoVal

\* Heap::len
heap_len == Cardinality({i \in 1..Len(slots) : slots[i].occ})

FreeSlots == {i \in 1..Len(slots) : ~slots[i].occ}

\* Heap::insert_temp: the slots a new value may take (a free one if there is
\* one, else a new one) and the arena with the value in slot i.
heap_insert_slots == IF FreeSlots # {} THEN FreeSlots ELSE {Len(slots) + 1}

heap_insert_temp(i, v) ==
    IF i \in 1..Len(slots)
    THEN [slots EXCEPT ![i] = [gen |-> slots[i].gen, occ |-> TRUE, val |-> v]]
    ELSE Append(slots, [gen |-> 0, occ |-> TRUE, val |-> v])

heap_handle(sl, i) == ObjH(i, sl[i].gen)

RootCount(h) == IF h \in DOMAIN roots THEN roots[h] ELSE 0

\* Heap::make_rooted: register the handle, or add one to its count.
heap_make_rooted(h) ==
    [x \in DOMAIN roots \cup {h} |-> IF x = h THEN RootCount(h) + 1 ELSE roots[x]]

\* Dropping a Rooted: one registration less; the entry goes at zero.
heap_release(h) ==
    [x \in {y \in DOMAIN roots : y # h \/ roots[y] > 1} |->
        IF x = h THEN roots[x] - 1 ELSE roots[x]]

----------------------------------------------------------------------------
\* Tracing

\* impl Trace<HVal> for Object: a handle yields itself, an immediate nothing.
trace_Object(o) == IF o.k = "H" THEN {o} ELSE {}

\* (a slip: the tail of a pair is not traced)
trace_HVal_car_only(v) ==
    CASE v.kind = "Cons" -> trace_Object(v.objs[1])
      [] v.kind = "Vec" -> UNION {trace_Object(v.objs[i]) : i \in 1..Len(v.objs)}
      [] OTHER -> {}

\* impl Trace<HVal> for HVal
trace_HVal(v) ==
    CASE v.kind = "Cons" -> trace_Object(v.objs[1]) \cup trace_Object(v.objs[2])
      [] v.kind = "Vec" -> UNION {trace_Object(v.objs[i]) : i \in 1..Len(v.objs)}
      [] OTHER -> {}

\* The pops a mark phase can take: one per registered handle and one per
\* field of a value in the heap.
RECURSIVE FieldCount(_)
FieldCount(i) == IF i = 0 THEN 0 ELSE Len(slots[i].val.objs) + FieldCount(i - 1)
MarkFuel == Cardinality(DOMAIN roots) + FieldCount(Len(slots))

MarkResult(done, marked, log) == [done |-> done, marked |-> marked, log |-> log]

\* (a slip: a popped handle is marked and traced without the
\* already-marked check)
RECURSIVE heap_mark_loop_unchecked(_, _, _, _)
heap_mark_loop_unchecked(work, marked, log, fuel) ==
    IF work = {} THEN MarkResult(TRUE, marked, log)
    ELSE IF fuel = 0 THEN MarkResult(FALSE, marked, log)
    ELSE LET h == CHOOSE x \in work : TRUE
         IN IF ~heap_contains(h)
            THEN heap_mark_loop_unchecked(work \ {h}, marked, log, fuel - 1)
            ELSE heap_mark_loop_unchecked((work \ {h}) \cup trace_HVal(heap_get(h)),
                                          marked \cup {h}, Append(log, h), fuel - 1)

heap_mark_unchecked(work, marked) ==
    heap_mark_loop_unchecked(work, marked, <<>>, MarkFuel)

\* (a slip: a popped handle is looked up by its slot alone, and the value
\* that is in the slot now is marked)
RECURSIVE heap_mark_loop_by_slot(_, _, _, _)
heap_mark_loop_by_slot(work, marked, log, fuel) ==
    IF work = {} THEN MarkResult(TRUE, marked, log)
    ELSE IF fuel = 0 THEN MarkResult(FALSE, marked, log)
    ELSE LET x == CHOOSE y \in work : TRUE
             h == IF x.a \in 1..Len(slots) THEN ObjH(x.a, slots[x.a].gen) ELSE x
         IN IF h \in marked \/ ~heap_contains(h)
            THEN heap_mark_loop_by_slot(work \ {x}, marked, log, fuel - 1)
            ELSE heap_mark_loop_by_slot((work \ {x}) \cup trace_HVal(heap_get(h)),
                                        marked \cup {h}, Append(log, h), fuel - 1)

heap_mark_by_slot(work, marked) ==
    heap_mark_loop_by_slot(work, marked, <<>>, MarkFuel)

\* Mark: pop a handle; if the heap holds it and it is not marked, mark it
\* and push what its value traces.  log is the handles in the order they
\* are marked; done is whether the work ran out within the fuel.
RECURSIVE heap_mark_loop(_, _, _, _)
heap_mark_loop(work, marked, log, fuel) ==
    IF work = {} THEN MarkResult(TRUE, marked, log)
    ELSE IF fuel = 0 THEN MarkResult(FALSE, marked, log)
    ELSE LET h == CHOOSE x \in work : TRUE
         IN IF h \in marked \/ ~heap_contains(h)
            THEN heap_mark_loop(work \ {h}, marked, log, fuel - 1)
            ELSE heap_mark_loop((work \ {h}) \cup trace_HVal(heap_get(h)),
                                marked \cup {h}, Append(log, h), fuel - 1)

heap_mark(work, marked) == heap_mark_loop(work, marked, <<>>, MarkFuel)

\* (a slip: the sweep increments the generation of every slot, the kept too)
heap_clean_bumps_all ==
    LET marked == heap_mark(DOMAIN roots, marks).marked
    IN [i \in 1..Len(slots) |->
          IF slots[i].occ /\ ObjH(i, slots[i].gen) \notin marked
          THEN [gen |-> slots[i].gen + 1, occ |-> FALSE, val |-> NoVal]
          ELSE [slots[i] EXCEPT !.gen = @ + 1]]

\* Heap::clean: mark from the Root Table, then sweep: an unmarked value is
\* destroyed and its slot's generation incremented; the marks are cleared.
heap_clean ==
    LET marked == heap_mark(DOMAIN roots, marks).marked
    IN [i \in 1..Len(slots) |->
          IF slots[i].occ /\ ObjH(i, slots[i].gen) \notin marked
          THEN [gen |-> slots[i].gen + 1, occ |-> FALSE, val |-> NoVal]
          ELSE slots[i]]

----------------------------------------------------------------------------
\* Resolution

\* (a slip: the slot is read without the generation check)
direct_unchecked(o) ==
    IF o.k = "S" THEN [d |-> "S", o |-> o, val |-> NoVal]
    ELSE IF o.a \in 1..Len(slots) /\ slots[o.a].occ
         THEN [d |-> "H", o |-> o, val |-> slots[o.a].val]
    ELSE [d |-> "D", o |-> o, val |-> NoVal]

\* VM::direct: DObj::S(v), DObj::H(&val), or DObj::D(ptr) for a handle the
\* heap no longer holds.
direct(o) ==
    IF o.k = "S" THEN [d |-> "S", o |-> o, val |-> NoVal]
    ELSE IF heap_contains(o) THEN [d |-> "H", o |-> o, val |-> heap_get(o)]
    ELSE [d |-> "D", o |-> o, val |-> NoVal]

\* (a slip: the slot is written without the generation check)
direct_mut_unchecked(o) == direct_unchecked(o)

\* VM::direct_mut
direct_mut(o) ==
    IF o.k = "S" THEN [d |-> "S", o |-> o, val |-> NoVal]
    ELSE IF heap_contains(o) THEN [d |-> "H", o |-> o, val |-> heap_get(o)]
    ELSE [d |-> "D", o |-> o, val |-> NoVal]

IsCons(dobj) == dobj.d = "H" /\ dobj.val.kind = "Cons"
IsVec(dobj) == dobj.d = "H" /\ dobj.val.kind = "Vec"

----------------------------------------------------------------------------
\* string::escape, on code points

\* (a slip: one range, 0x01 to 0x1f, with the lower-case offset)
escape_char_one_range(c) ==
    CASE c = 0 -> <<92, 48>>
      [] c = 7 -> <<92, 97>>
      [] c = 8 -> <<92, 98>>
      [] c = 9 -> <<92, 116>>
      [] c = 10 -> <<92, 110>>
      [] c = 11 -> <<92, 118>>
      [] c = 12 -> <<92, 102>>
      [] c = 13 -> <<92, 114>>
      [] c = 27 -> <<92, 101>>
      [] c = 34 -> <<92, 34>>
      [] c = 92 -> <<92, 92>>
      [] c = 127 -> <<92, 94, 63>>
      [] c \in 1..31 /\ c \notin 7..13 /\ c # 27 -> <<92, 94, c + 97 - 1>>
      [] OTHER -> <<c>>

\* the match of escape, arm by arm: the first arm that takes c
escape_char(c) ==
    CASE c = 0 -> <<92, 48>>
      [] c = 7 -> <<92, 97>>
      [] c = 8 -> <<92, 98>>
      [] c = 9 -> <<92, 116>>
      [] c = 10 -> <<92, 110>>
      [] c = 11 -> <<92, 118>>
      [] c = 12 -> <<92, 102>>
      [] c = 13 -> <<92, 114>>
      [] c = 27 -> <<92, 101>>
      [] c = 34 -> <<92, 34>>
      [] c = 92 -> <<92, 92>>
      [] c = 127 -> <<92, 94, 63>>
      [] c \in 1..26 /\ c \notin 7..13 -> <<92, 94, c + 97 - 1>>
      [] c \in 28..31 -> <<92, 94, c + 65 - 1>>
      [] OTHER -> <<c>>

RECURSIVE escape(_)
escape(s) == IF s = <<>> THEN <<>> ELSE escape_char(Head(s)) \o escape(Tail(s))

----------------------------------------------------------------------------
\* string::unescape, on code points.  A step of the Chars iterator is the
\* head of the sequence; what a helper leaves unread is its rest.

\* Option<char> and the characters not yet read
GotChar(c, rest) == [ok |-> TRUE, c |-> c, rest |-> rest]
NoChar == [ok |-> FALSE, c |-> 0, rest |-> <<>>]

\* Option<String>::None
NoString == Res("None", <<>>)

\* ('0'..='9'), ('a'..='f'), ('A'..='F')
IsHexDigit(c) == c \in 48..57 \/ c \in 97..102 \/ c \in 65..70

\* char::to_digit(16)
to_digit(c) == IF c \in 48..57 THEN c - 48
               ELSE IF c \in 97..102 THEN c - 97 + 10
               ELSE c - 65 + 10

\* char::from_u32 of the u32 hi * 2^16 + lo: None for a surrogate and above
\* 0x10FFFF
from_u32(hi, lo, rest) ==
    IF (hi = 0 /\ lo \in 55296..57343) \/ hi > 16 THEN NoChar
    ELSE GotChar(hi * 65536 + lo, rest)

\* for _ in 0..nchars { code = code * 16 + digit }: code is a u32, kept as
\* its two 16-bit halves
RECURSIVE unescape_unicode_loop(_, _, _, _)
unescape_unicode_loop(input, n, hi, lo) ==
    IF n = 0 THEN from_u32(hi, lo, input)
    ELSE IF input = <<>> \/ ~IsHexDigit(Head(input)) THEN NoChar
    ELSE unescape_unicode_loop(Tail(input), n - 1,
                               (hi * 16 + (lo \div 4096)) % 65536,
                               (lo % 4096) * 16 + to_digit(Head(input)))

\* (a slip: a character that is no hexadecimal digit ends the number)
unescape_unicode_stops_early(input, nchars) ==
    IF input # <<>> /\ ~IsHexDigit(Head(input)) THEN GotChar(0, input)
    ELSE unescape_unicode_loop(input, nchars, 0, 0)

\* string::unescape_unicode
unescape_unicode(input, nchars) == unescape_unicode_loop(input, nchars, 0, 0)

\* (a slip: the upper-case range is 'A'..='Z')
unescape_single_letters_only(input) ==
    IF input = <<>> THEN NoChar
    ELSE LET c == Head(input)
             rest == Tail(input)
         IN CASE c = 48 -> GotChar(0, rest)
              [] c = 97 -> GotChar(7, rest)
              [] c = 98 -> GotChar(8, rest)
              [] c = 116 -> GotChar(9, rest)
              [] c = 110 -> GotChar(10, rest)
              [] c = 118 -> GotChar(11, rest)
              [] c = 102 -> GotChar(12, rest)
              [] c = 114 -> GotChar(13, rest)
              [] c = 101 -> GotChar(27, rest)
              [] c = 34 -> GotChar(34, rest)
              [] c = 92 -> GotChar(92, rest)
              [] c = 94 ->
                    IF rest = <<>> THEN NoChar
                    ELSE LET t == Head(rest)
                         IN CASE t = 63 -> GotChar(127, Tail(rest))
                              [] t \in 97..122 -> GotChar(1 + t - 97, Tail(rest))
                              [] t \in 65..90 -> GotChar(1 + t - 65, Tail(rest))
                              [] OTHER -> NoChar
              [] c = 117 -> unescape_unicode(rest, 4)
              [] c = 85 -> unescape_unicode(rest, 8)
              [] OTHER -> NoChar

\* string::unescape_single: the character after a backslash
unescape_single(input) ==
    IF input = <<>> THEN NoChar
    ELSE LET c == Head(input)
             rest == Tail(input)
         IN CASE c = 48 -> GotChar(0, rest)
              [] c = 97 -> GotChar(7, rest)
              [] c = 98 -> GotChar(8, rest)
              [] c = 116 -> GotChar(9, rest)
              [] c = 110 -> GotChar(10, rest)
              [] c = 118 -> GotChar(11, rest)
              [] c = 102 -> GotChar(12, rest)
              [] c = 114 -> GotChar(13, rest)
              [] c = 101 -> GotChar(27, rest)
              [] c = 34 -> GotChar(34, rest)
              [] c = 92 -> GotChar(92, rest)
              [] c = 94 ->
                    IF rest = <<>> THEN NoChar
                    ELSE LET t == Head(rest)
                         IN CASE t = 63 -> GotChar(127, Tail(rest))
                              [] t \in 97..122 -> GotChar(1 + t - 97, Tail(rest))
                              [] t \in 64..95 -> GotChar(1 + t - 65, Tail(rest))
                              [] OTHER -> NoChar
              [] c = 117 -> unescape_unicode(rest, 4)
              [] c = 85 -> unescape_unicode(rest, 8)
              [] OTHER -> NoChar

RECURSIVE unescape_loop(_, _)
unescape_loop(chars, output) ==
    IF chars = <<>> THEN Res("Some", output)
    ELSE IF Head(chars) = 92
         THEN LET r == unescape_single(Tail(chars))
              IN IF r.ok THEN unescape_loop(r.rest, Append(output, r.c))
                 ELSE NoString
    ELSE unescape_loop(Tail(chars), Append(output, Head(chars)))

\* string::unescape
unescape(input) == unescape_loop(input, <<>>)

----------------------------------------------------------------------------
\* impl Display for WrappedObject: the text as code points, or how it fails

Ok(out) == [st |-> "ok", out |-> out]
Failed(st) == [st |-> st, out |-> <<>>]

\* a; b: the second write runs only when the first returned.
Then(r1, r2) == IF r1.st # "ok" THEN r1
                ELSE IF r2.st # "ok" THEN r2
                ELSE Ok(r1.out \o r2.out)

RECURSIVE Digits(_)
Digits(n) == IF n < 10 THEN <<48 + n>> ELSE Digits(n \div 10) \o <<48 + (n % 10)>>

\* "{}" of an isize
fmt_int(v) == IF v < 0 THEN <<45>> \o Digits(-v) ELSE Digits(v)

\* "{}" of an f64 given in tenths: no decimal point for a whole number,
\* and NaN for the NaN
fmt_f64(t) == IF t = NaN THEN <<78, 97, 78>>
              ELSE IF t % 10 = 0 THEN Digits(t \div 10)
              ELSE Digits(t \div 10) \o <<46, 48 + (t % 10)>>

\* "{:?}" of the dangling pointer: an address, opaque
fmt_ptr(h) == <<48, 120>> \o Digits(h.a) \o Digits(h.b)

fmt_SVal(o) ==
    CASE o.tag = "Undefined" -> <<35, 117, 110, 100, 101, 102, 105, 110, 101, 100>>
      [] o.tag = "Nil" -> <<110, 105, 108>>
      [] o.tag = "Bool" /\ o.a = 1 -> <<35, 116>>
      [] o.tag = "Bool" /\ o.a = 0 -> <<35, 102>>
      [] o.tag = "Int" -> fmt_int(o.a)
      [] o.tag = "Float" ->
            LET s == fmt_f64(o.a)
            IN IF \E i \in 1..Len(s) : s[i] = 46 THEN s ELSE s \o <<46, 48>>

Dead == <<35, 100, 101, 97, 100, 60>>

\* fuel: the calls of fmt the stack still takes; loop: the iterations the
\* tail walk still has (a pair's tail chain is never longer than the heap).
RECURSIVE fmt(_, _), fmt_tail(_, _, _), fmt_rest(_, _, _)
fmt(o, fuel) ==
    LET dobj == direct(o)
    IN IF fuel = 0 THEN Failed("overflow")
       ELSE CASE dobj.d = "D" -> Ok(Dead \o fmt_ptr(o) \o <<62>>)
              [] dobj.d = "S" -> Ok(fmt_SVal(o))
              [] IsCons(dobj) ->
                    Then(Ok(<<40>>),
                    Then(fmt(dobj.val.objs[1], fuel - 1),
                         fmt_tail(dobj.val.objs[2], fuel, Len(slots))))
              [] IsVec(dobj) ->
                    LET vec_ == dobj.val.objs
                    IN Then(Ok(<<35, 40>>),
                       Then(IF Len(vec_) > 0 THEN fmt(vec_[1], fuel - 1) ELSE Ok(<<>>),
                       Then(IF Len(vec_) < 1 THEN Failed("panic")
                            ELSE fmt_rest(vec_, 2, fuel),
                            Ok(<<41>>))))
              [] OTHER -> Ok(<<34>> \o escape(dobj.val.text) \o <<34>>)

\* (a slip: the tail is not compared with Nil, a proper list ends in " . nil)")
fmt_tail_dotted_nil(tail, fuel, loop) ==
    LET dobj == direct(tail)
    IN IF IsCons(dobj)
       THEN IF loop = 0 THEN Failed("diverge")
            ELSE Then(Ok(<<32>>),
                 Then(fmt(dobj.val.objs[1], fuel - 1),
                      fmt_tail(dobj.val.objs[2], fuel, loop - 1)))
       ELSE Then(Ok(<<32, 46, 32>>), Then(fmt(tail, fuel - 1), Ok(<<41>>)))

\* while let DirectObject::H(&HVal::Cons(car, cdr)) = self.vm.direct(tail)
fmt_tail(tail, fuel, loop) ==
    LET dobj == direct(tail)
    IN IF IsCons(dobj)
       THEN IF loop = 0 THEN Failed("diverge")
            ELSE Then(Ok(<<32>>),
                 Then(fmt(dobj.val.objs[1], fuel - 1),
                      fmt_tail(dobj.val.objs[2], fuel, loop - 1)))
       ELSE IF tail = Nil THEN Ok(<<41>>)
       ELSE Then(Ok(<<32, 46, 32>>), Then(fmt(tail, fuel - 1), Ok(<<41>>)))

\* for obj in &vec[1..]
fmt_rest(vec_, i, fuel) ==
    IF i > Len(vec_) THEN Ok(<<>>)
    ELSE Then(Ok(<<32>>), Then(fmt(vec_[i], fuel - 1), fmt_rest(vec_, i + 1, fuel)))

\* format!("{}", vm.wrap(obj)): the stack holds one call per live value.
wrap(o) == fmt(o, heap_len + 1)

----------------------------------------------------------------------------
\* The VM's read-only operations (&self): results of the state and the inputs.

Unit == Res("Unit", Nil)
None == Res("None", Nil)
Some(o) == Res("Some", o)
RetObj(o) == Res("Obj", o)
ROk == Res("Ok", Nil)
RErr == Res("Err", Nil)

\* (a slip: the arena's slots are counted, the free ones too)
heapsize_capacity == Len(slots)

\* VM::heapsize
heapsize == heap_len

\* VM::int
int(v) == ObjS(SVal("Int", v))

\* VM::float
float(v) == ObjS(SVal("Float", v))

\* (a slip: the pattern binds the second field)
car_second_field(o) == IF IsCons(direct(o)) THEN Some(direct(o).val.objs[2]) ELSE None

\* VM::car
car(o) == IF IsCons(direct(o)) THEN Some(direct(o).val.objs[1]) ELSE None

\* VM::cdr
cdr(o) == IF IsCons(direct(o)) THEN Some(direct(o).val.objs[2]) ELSE None

\* VM::vec_get: index is the usize, the element is vec[index + 1] here
vec_get(o, index) ==
    IF IsVec(direct(o)) /\ index < Len(direct(o).val.objs)
    THEN Some(direct(o).val.objs[index + 1]) ELSE None

\* format!("{}", vm.wrap(o)): the text, or how the call ends instead
render(o) == wrap(o)

----------------------------------------------------------------------------
\* The VM's operations that change it.  last records the call.

Call(op, obj, res) == [op |-> op, obj |-> obj, res |-> res]

NoRoots == [x \in {} |-> 0]
HeldCount(h) == IF h \in DOMAIN held THEN held[h] ELSE 0

RECURSIVE SumOver(_, _)
SumOver(f, D) == IF D = {} THEN 0
                 ELSE LET x == CHOOSE y \in D : TRUE IN f[x] + SumOver(f, D \ {x})
HeldTotal == SumOver(held, DOMAIN held)

\* VM::new
Init ==
    /\ slots = <<>>
    /\ marks = {}
    /\ roots = NoRoots
    /\ issued = {}
    /\ held = NoRoots
    /\ kept = {}
    /\ last = Call("new", Nil, Unit)

\* insert_temp(value) and Object::H(handle), shared by cons, vec and string;
\* n bounds the insertions of a run
InsertWithin(n, op, v) ==
    /\ Cardinality(issued) < n
    /\ \E i \in heap_insert_slots :
          LET sl == heap_insert_temp(i, v)
          IN /\ slots' = sl
             /\ issued' = issued \cup {heap_handle(sl, i)}
             /\ last' = Call(op, heap_handle(sl, i), RetObj(heap_handle(sl, i)))
    /\ UNCHANGED <<marks, roots, held, kept>>

Insert(op, v) == InsertWithin(MaxInserts, op, v)

\* VM::cons
cons(a, b) == Insert("cons", HVal_Cons(a, b))

\* (a slip: Vec::with_capacity(len), a vector with room for len and no element)
vec_with_capacity(len) == Insert("vec", HVal_Vec(<<>>))

\* VM::vec
vec(len) == Insert("vec", HVal_Vec([i \in 1..len |-> Undef]))

\* VM::string
string(s) == Insert("string", HVal_String(s))

\* (a slip: index <= len)
vec_set_result_off_by_one(o, index, x) ==
    LET dobj == direct_mut(o)
    IN IF IsVec(dobj)
       THEN IF index <= Len(dobj.val.objs) THEN ROk ELSE RErr
       ELSE RErr

\* (a slip: the value the old element referred to is destroyed)
vec_set_heap_drops_old(o, index, x) ==
    LET dobj == direct_mut(o)
    IN IF IsVec(dobj) /\ index < Len(dobj.val.objs)
       THEN LET old == dobj.val.objs[index + 1]
                sl == [slots EXCEPT ![o.a].val.objs[index + 1] = x]
            IN IF old.k = "H" /\ heap_contains(old) /\ old # o
               THEN [sl EXCEPT ![old.a] =
                        [gen |-> @.gen + 1, occ |-> FALSE, val |-> NoVal]]
               ELSE sl
       ELSE slots

\* VM::vec_set: what it returns, and the heap it leaves
vec_set_result(o, index, x) ==
    LET dobj == direct_mut(o)
    IN IF IsVec(dobj)
       THEN IF index < Len(dobj.val.objs) THEN ROk ELSE RErr
       ELSE RErr

vec_set_heap(o, index, x) ==
    LET dobj == direct_mut(o)
    IN IF IsVec(dobj) /\ index < Len(dobj.val.objs)
       THEN [slots EXCEPT ![o.a].val.objs[index + 1] = x]
       ELSE slots

vec_set(o, index, x) ==
    /\ slots' = vec_set_heap(o, index, x)
    /\ last' = Call("vec_set", o, vec_set_result(o, index, x))
    /\ UNCHANGED <<marks, roots, issued, held, kept>>

\* (a slip: the handle is wrapped without make_rooted)
root_unregistered(o) ==
    /\ o.k = "H" => heap_contains(o) /\ HeldTotal < MaxRoots
    /\ roots' = roots
    /\ held' = IF o.k = "H"
               THEN [x \in DOMAIN held \cup {o} |->
                        IF x = o THEN HeldCount(o) + 1 ELSE held[x]]
               ELSE held
    /\ last' = Call("root", o, Res("Rooted", o))
    /\ UNCHANGED <<slots, marks, issued, kept>>

\* GObj::root for Object: an immediate is wrapped as it is; a handle is
\* registered in the Root Table (make_rooted takes a handle of this heap).
root(o) ==
    /\ o.k = "H" => heap_contains(o) /\ HeldTotal < MaxRoots
    /\ roots' = IF o.k = "H" THEN heap_make_rooted(o) ELSE roots
    /\ held' = IF o.k = "H"
               THEN [x \in DOMAIN held \cup {o} |->
                        IF x = o THEN HeldCount(o) + 1 ELSE held[x]]
               ELSE held
    /\ last' = Call("root", o, Res("Rooted", o))
    /\ UNCHANGED <<slots, marks, issued, kept>>

\* #[derive(Clone)] for RootedObject: one more Rooted of the same handle
clone(h) ==
    /\ HeldCount(h) > 0 /\ HeldTotal < MaxRoots
    /\ roots' = heap_make_rooted(h)
    /\ held' = [held EXCEPT ![h] = @ + 1]
    /\ last' = Call("clone", h, Res("Rooted", h))
    /\ UNCHANGED <<slots, marks, issued, kept>>

\* (a slip: the RootedObject is forgotten, its registration stays)
release_leak(h) ==
    /\ HeldCount(h) > 0
    /\ roots' = roots
    /\ held' = [x \in {y \in DOMAIN held : y # h \/ held[y] > 1} |->
                   IF x = h THEN held[x] - 1 ELSE held[x]]
    /\ last' = Call("release", h, Unit)
    /\ UNCHANGED <<slots, marks, issued, kept>>

\* (a slip: the value is destroyed with its last RootedObject)
release_eager(h) ==
    /\ HeldCount(h) > 0
    /\ roots' = heap_release(h)
    /\ held' = [x \in {y \in DOMAIN held : y # h \/ held[y] > 1} |->
                   IF x = h THEN held[x] - 1 ELSE held[x]]
    /\ slots' = IF HeldCount(h) = 1 /\ heap_contains(h)
                THEN [slots EXCEPT ![h.a] =
                         [gen |-> @.gen + 1, occ |-> FALSE, val |-> NoVal]]
                ELSE slots
    /\ last' = Call("release", h, Unit)
    /\ UNCHANGED <<marks, issued, kept>>

\* A RootedObject::H going out of scope
release(h) ==
    /\ HeldCount(h) > 0
    /\ roots' = heap_release(h)
    /\ held' = [x \in {y \in DOMAIN held : y # h \/ held[y] > 1} |->
                   IF x = h THEN held[x] - 1 ELSE held[x]]
    /\ last' = Call("release", h, Unit)
    /\ UNCHANGED <<slots, marks, issued, kept>>

\* VM::gc: Heap::clean; the call returns when the mark phase has run out of
\* work, and does not return otherwise
gc ==
    IF heap_mark(DOMAIN roots, marks).done
    THEN /\ slots' = heap_clean
         /\ marks' = {}
         /\ kept' = kept \cup {h \in issued : heap_contains(h)'}
         /\ last' = Call("gc", Nil, Unit)
         /\ UNCHANGED <<roots, issued, held>>
    ELSE /\ marks' = heap_mark(DOMAIN roots, marks).marked
         /\ last' = Call("gc", Nil, Res("Diverged", Nil))
         /\ UNCHANGED <<slots, roots, issued, held, kept>>

Next ==
    \/ \E a, b \in Args : cons(a, b)
    \/ \E len \in 0..MaxVecLen : vec(len)
    \/ \E s \in TextInputs : string(s)
    \/ \E o \in Args, i \in 0..MaxVecLen, x \in Args : vec_set(o, i, x)
    \/ \E o \in Args : root(o)
    \/ \E h \in issued : clone(h)
    \/ \E h \in issued : release(h)
    \/ gc

Spec == Init /\ [][Next]_vars

\* The runs with a third insertion, for a slot that is reused while a rooted
\* value still holds the handle of its former value: pairs and vectors are
\* made, written, rooted, released and collected.
cons_third(a, b) == InsertWithin(MaxReuseInserts, "cons", HVal_Cons(a, b))
vec_third(len) == InsertWithin(MaxReuseInserts, "vec", HVal_Vec([i \in 1..len |-> Undef]))

NextReuse ==
    \/ \E a, b \in Args : cons_third(a, b)
    \/ \E len \in 0..MaxVecLen : vec_third(len)
    \/ \E o \in issued, i \in 0..MaxVecLen, x \in Args : vec_set(o, i, x)
    \/ \E o \in issued : root(o)
    \/ \E h \in issued : release(h)
    \/ gc

\* a = vm.cons(Nil, Nil); vm.gc(): the value is reclaimed, its handle is
\* stale and its slot is free
InitReuse ==
    /\ slots = <<[gen |-> 1, occ |-> FALSE, val |-> NoVal]>>
    /\ marks = {}
    /\ roots = NoRoots
    /\ issued = {ObjH(1, 0)}
    /\ held = NoRoots
    /\ kept = {}
    /\ last = Call("gc", Nil, Unit)

SpecReuse == InitReuse /\ [][NextReuse]_vars

\* The runs the renderer is examined on: the caller also passes small
\* integers, and roots nothing, so a gc() leaves every handle stale.
RenderImms == {Nil, int(0), int(1), int(2)}
RenderArgs == RenderImms \cup issued

NextRender ==
    \/ \E a, b \in RenderArgs : cons(a, b)
    \/ \E len \in 0..MaxVecLen : vec(len)
    \/ \E s \in TextInputs : string(s)
    \/ \E o \in issued, i \in 0..MaxVecLen, x \in RenderArgs : vec_set(o, i, x)
    \/ gc

SpecRender == Init /\ [][NextRender]_vars

----------------------------------------------------------------------------
\* The codec's runs: a text is chosen, then escape or unescape is called on
\* it, and unescape on what escape returned.

\* the C0 controls, DEL, the quote, the backslash, and printable characters
\* that mean something after a backslash or stand for the rest (0 ? @ ^ a u,
\* and o with stroke)
CodecChars == (0..31) \cup {34, 48, 63, 64, 92, 94, 97, 117, 127, 248}
AnyTexts == UNION {[1..k -> CodecChars] : k \in 0..MaxText}

\* a backslash and one more character, or none; a caret escape
Ascii == 0..127
ShortEscapes == {<<92>>, <<92, 94>>} \cup {<<92, c>> : c \in Ascii}
                    \cup {<<92, 94, c>> : c \in Ascii}

\* \u and up to four of the characters 0 8 d D F g
HexChars == {48, 56, 100, 68, 70, 103}
Hex4 == UNION {[1..k -> HexChars] : k \in 0..4}
Unicode4 == {<<92, 117>> \o h : h \in Hex4}

\* \U and up to eight characters: the halves of numbers below, at and above
\* the surrogates and 0x10FFFF, of a number with a character that is no
\* digit, and of too short ones
HighHalf == {<<>>, <<48, 48>>, <<48, 48, 48, 48>>, <<48, 48, 49, 48>>,
             <<48, 48, 49, 49>>, <<56, 48, 48, 48>>, <<70, 70, 70, 70>>,
             <<48, 48, 103, 48>>}
LowHalf == {<<>>, <<48, 48, 48>>, <<48, 48, 48, 48>>, <<100, 56, 48, 48>>,
            <<68, 70, 70, 70>>, <<70, 70, 70, 70>>, <<68, 55, 70, 70>>,
            <<48, 48, 103, 48>>}
Unicode8 == {<<92, 85>> \o hi \o lo : hi \in HighHalf, lo \in LowHalf}

\* each of them alone, after a backslash or a letter, before a backslash or
\* a digit
Before == {<<>>, <<92>>, <<97>>}
After == {<<>>, <<92>>, <<48>>}
EscapeTexts ==
    {pre \o e \o post : pre \in Before, post \in After,
                        e \in ShortEscapes \cup Unicode4 \cup Unicode8}

CodecTexts == AnyTexts \cup EscapeTexts

InitCodec ==
    /\ slots = <<>>
    /\ marks = {}
    /\ roots = NoRoots
    /\ issued = {}
    /\ held = NoRoots
    /\ kept = {}
    /\ \E s \in CodecTexts : last = Call("text", s, Unit)

\* escape(&text)
escape_call ==
    /\ last.op = "text"
    /\ last' = Call("escape", last.obj, Res("String", escape(last.obj)))
    /\ UNCHANGED <<slots, marks, roots, issued, held, kept>>

\* unescape(&text), of the text chosen or of the String escape returned
unescape_call ==
    /\ last.op \in {"text", "escape"}
    /\ LET input == IF last.op = "text" THEN last.obj ELSE last.res.o
       IN last' = Call("unescape", input, unescape(input))
    /\ UNCHANGED <<slots, marks, roots, issued, held, kept>>

NextCodec == escape_call \/ unescape_call

SpecCodec == InitCodec /\ [][NextCodec]_vars

----------------------------------------------------------------------------
\* Equality: #[derive(PartialEq)] for SVal and Object, and the three impls
\* for RootedObject.

\* f64's ==: a NaN is equal to nothing, itself included
f64_eq(x, y) == x # NaN /\ y # NaN /\ x = y

\* derived for SVal: the same variant, and the payloads equal by their type's ==
SVal_eq(l, r) ==
    /\ l.tag = r.tag
    /\ IF l.tag = "Float" THEN f64_eq(l.a, r.a) ELSE l.a = r.a

\* Handle's ==: the same slot and generation
Handle_eq(l, r) == l.a = r.a /\ l.b = r.b

\* derived for Object
Object_eq(l, r) ==
    CASE l.k = "S" /\ r.k = "S" -> SVal_eq(l, r)
      [] l.k = "H" /\ r.k = "H" -> Handle_eq(l, r)
      [] OTHER -> FALSE

\* RootedObject::S(v) / RootedObject::H(rooted) of an Object, and
\* Rooted::handle
RootedObject(o) == [rk |-> o.k, of |-> o]
handle(r) == r.of

\* impl PartialEq for RootedObject
RootedObject_eq(l, r) ==
    CASE l.rk = "S" /\ r.rk = "S" -> SVal_eq(l.of, r.of)
      [] l.rk = "H" /\ r.rk = "H" -> Handle_eq(handle(l), handle(r))
      [] OTHER -> FALSE

\* impl PartialEq<RootedObject> for Object
Object_eq_RootedObject(l, r) ==
    CASE l.k = "S" /\ r.rk = "S" -> SVal_eq(l, r.of)
      [] l.k = "H" /\ r.rk = "H" -> Handle_eq(l, handle(r))
      [] OTHER -> FALSE

\* impl PartialEq<Object> for RootedObject
RootedObject_eq_Object(l, r) ==
    CASE l.rk = "S" /\ r.k = "S" -> SVal_eq(l.of, r)
      [] l.rk = "H" /\ r.k = "H" -> Handle_eq(handle(l), r)
      [] OTHER -> FALSE

----------------------------------------------------------------------------
\* Reachability, as the claims state it: from the handles some RootedObject
\* holds, along the car and cdr of a pair and the elements of a vector, to
\* the values the heap holds.

LiveHandles == {ObjH(i, slots[i].gen) : i \in {j \in 1..Len(slots) : slots[j].occ}}
Stale(h) == h \notin LiveHandles
Rooted == {h \in DOMAIN held : held[h] > 0}

Fields(h) == {slots[h.a].val.objs[j] : j \in 1..Len(slots[h.a].val.objs)}

RECURSIVE Closure(_)
Closure(R) ==
    LET more == R \cup ((UNION {Fields(h) : h \in R}) \cap LiveHandles)
    IN IF more = R THEN R ELSE Closure(more)

Reachable == Closure(Rooted \cap LiveHandles)

----------------------------------------------------------------------------
\* C1: a gc() call leaves in the heap exactly the values that were reachable
\* from the rooted handles when it was called (every reachable value is kept,
\* every other value is removed), and heapsize() is then their number.
C1_GcKeepsExactlyReachable ==
    [][last'.op = "gc" =>
          /\ LiveHandles' = Reachable
          /\ heapsize' = Cardinality(Reachable)
          /\ Reachable' = Reachable]_vars

\* after a gc(): a value that no RootedObject holds was kept because a rooted
\* value refers to it
C1_Witness ==
    /\ last.op = "gc"
    /\ \E h \in LiveHandles : h \notin Rooted

\* C2: while a RootedObject for a handle exists, the handle resolves to its
\* value, whatever was rooted, cloned, released and collected before.
C2_RootedSurvives ==
    \A h \in issued : HeldCount(h) > 0 =>
        /\ h \in LiveHandles
        /\ direct(h).d = "H"
        /\ RootCount(h) = HeldCount(h)

\* after a gc(): a handle with two RootedObjects that has been through a
\* collection before resolves
C2_Witness ==
    /\ last.op = "gc"
    /\ \E h \in kept : HeldCount(h) = 2 /\ direct(h).d = "H"

\* C3: after a gc() every value the heap holds is reachable from a rooted
\* handle: a value with no RootedObject left and no rooted value referring
\* to it is gone and its handle is stale, and no mark of an earlier
\* collection is left to protect it.
C3_UnreachableReclaimed ==
    /\ marks = {}
    /\ last.op = "gc" =>
          \A h \in issued : h \notin Reachable => Stale(h) /\ direct(h).d = "D"

\* after a gc(): a value that survived an earlier collection is reclaimed,
\* another one stays
C3_Witness ==
    /\ last.op = "gc"
    /\ heapsize = 1
    /\ \E h \in kept : Stale(h) /\ HeldCount(h) = 0

InsertOps == {"cons", "vec", "string"}

\* C4: a stale handle stays stale in every later state, and the handle an
\* insertion returns is different from every handle returned before, also
\* when the slot is the one a stale handle names.
C4_StaleForever ==
    [][/\ \A h \in issued : Stale(h) => Stale(h)' /\ direct(h)'.d = "D"
       /\ last'.op \in InsertOps =>
             /\ last'.res.o \notin issued
             /\ issued' = issued \cup {last'.res.o}
             /\ \A h \in issued' \ issued : direct(h)'.d = "H"]_vars

\* a slot was reused: the old handle is stale, the new one of the same slot
\* resolves
C4_Witness ==
    \E h1, h2 \in issued :
        /\ h1.a = h2.a /\ h1.b # h2.b
        /\ Stale(h1) /\ direct(h1).d = "D"
        /\ direct(h2).d = "H"

\* C5: heapsize() is 0 for a new VM and grows by exactly one with each cons,
\* vec and string call, which removes no value; int and float build their
\* result without the heap.
C5_InsertAddsOne ==
    /\ heapsize = 0
    /\ [][last'.op \in InsertOps =>
             /\ heapsize' = heapsize + 1
             /\ LiveHandles \subseteq LiveHandles'
             /\ \A v \in IntInputs : int(v).k = "S"
             /\ \A v \in FloatInputs : float(v).k = "S"]_vars

\* an insertion into a slot that a collection had freed
C5_Witness ==
    /\ last.op \in InsertOps
    /\ last.res.o.b > 0
    /\ heapsize = 1

RootOps == {"root", "clone", "release"}

\* C6: root, clone and release of a RootedObject leave the heap as it is
\* (every slot, so heapsize() and every handle's validity); releasing the
\* last RootedObject of a handle frees nothing, and rooting an immediate
\* leaves the Root Table as it is too.
C6_RootingFrame ==
    [][last'.op \in RootOps =>
          /\ slots' = slots
          /\ heapsize' = heapsize
          /\ issued' = issued
          /\ \A h \in issued : direct(h)' = direct(h)
          /\ last'.obj.k = "S" => roots' = roots /\ held' = held
          /\ \A h \in issued : h # last'.obj => RootCount(h)' = RootCount(h)]_vars

\* the last RootedObject of a value was released: nothing roots or reaches
\* the value, and its handle still resolves
C6_Witness ==
    /\ last.op = "release"
    /\ HeldCount(last.obj) = 0 /\ RootCount(last.obj) = 0
    /\ last.obj \notin Reachable
    /\ direct(last.obj).d = "H"

\* C7: no operation but gc() removes a value: cons, vec, string, vec_set,
\* root, clone and release never lower heapsize() and leave every handle that
\* resolved resolving (car, cdr, vec_get, int, float and wrap take &self and
\* have no heap to change).
C7_OnlyGcRemoves ==
    [][last'.op # "gc" =>
          /\ heapsize' >= heapsize
          /\ LiveHandles \subseteq LiveHandles'
          /\ \A h \in issued : direct(h).d = "H" => direct(h)'.d = "H"]_vars

\* a vec_set replaced an element, and a value that nothing reaches is still
\* in the heap
C7_Witness ==
    /\ last.op = "vec_set" /\ last.res = ROk
    /\ \E h \in LiveHandles : h \notin Reachable /\ h # last.obj

Indices == 0..MaxVecLen

\* p is a run of consecutive elements of s
Occurs(p, s) ==
    \E i \in 1..(Len(s) - Len(p) + 1) : SubSeq(s, i, i + Len(p) - 1) = p

Placeholder(h) == Dead \o fmt_ptr(h) \o <<62>>

\* the live pairs and vectors that hold h
Holders(h) == {c \in LiveHandles : h \in Fields(c)}

\* C8: a stale handle fails through the result: car, cdr and vec_get give
\* None, vec_set gives Err and leaves the heap as it is, and it renders as
\* #dead<...> at every depth; a live pair or vector that holds it and no live
\* handle renders, with the placeholder in the text, and so does every other
\* holder whose rendering returns.
C8_StaleFailsByResult ==
    \A h \in issued : Stale(h) =>
        /\ car(h) = None /\ cdr(h) = None
        /\ \A i \in Indices : vec_get(h, i) = None
        /\ \A i \in Indices, x \in Args :
              vec_set_result(h, i, x) = RErr /\ vec_set_heap(h, i, x) = slots
        /\ \A fuel \in 1..(MaxInserts + 1) : fmt(h, fuel) = Ok(Placeholder(h))
        /\ \A c \in Holders(h) :
              /\ Fields(c) \cap LiveHandles = {} => render(c).st = "ok"
              /\ render(c).st = "ok" => Occurs(Placeholder(h), render(c).out)

\* a stale handle whose slot holds a vector again, and a live pair or vector
\* that holds the stale handle and renders
C8_Witness ==
    \E h \in issued :
        /\ Stale(h)
        /\ h.a \in 1..Len(slots) /\ slots[h.a].occ /\ slots[h.a].val.kind = "Vec"
        /\ \E c \in Holders(h) : render(c).st = "ok"

LiveVec(o) == o.k = "H" /\ o \in LiveHandles /\ slots[o.a].val.kind = "Vec"
VecLen(o) == Len(slots[o.a].val.objs)

\* C9: vec_set(v, i, x) returns Ok exactly when v is a live vector and
\* i < its length, and then element i alone is replaced, by x; otherwise it
\* returns Err and the heap is as before.  vec_get(v, i) is the element for
\* i < length and None otherwise.
C9_VecSetGet ==
    \A o \in Args, i \in Indices :
        /\ vec_get(o, i) = IF LiveVec(o) /\ i < VecLen(o)
                           THEN Some(slots[o.a].val.objs[i + 1]) ELSE None
        /\ \A x \in Args :
              LET ok == LiveVec(o) /\ i < VecLen(o)
                  new == vec_set_heap(o, i, x)
              IN /\ vec_set_result(o, i, x) = (IF ok THEN ROk ELSE RErr)
                 /\ ~ok => new = slots
                 /\ ok =>
                       /\ Len(new) = Len(slots)
                       /\ \A j \in 1..Len(slots) : j # o.a => new[j] = slots[j]
                       /\ new[o.a].gen = slots[o.a].gen /\ new[o.a].occ
                       /\ new[o.a].val.kind = "Vec"
                       /\ Len(new[o.a].val.objs) = VecLen(o)
                       /\ \A k \in 1..VecLen(o) :
                             new[o.a].val.objs[k] =
                                 IF k = i + 1 THEN x ELSE slots[o.a].val.objs[k]

\* a vec_set returned Ok on a vector of two elements: one element is the
\* value given, the other is as vec made it
C9_Witness ==
    /\ last.op = "vec_set" /\ last.res = ROk
    /\ LiveVec(last.obj) /\ VecLen(last.obj) = 2
    /\ slots[last.obj.a].val.objs[1] = Undef
    /\ slots[last.obj.a].val.objs[2] = last.obj

\* C10: vec_set's failure for an index out of range on a live vector differs
\* from its failure on a reference that is not a live vector.
C10_FailuresDistinct ==
    \A o1, o2 \in Args, i1, i2 \in Indices, x \in Args :
        (LiveVec(o1) /\ i1 >= VecLen(o1) /\ ~LiveVec(o2))
            => vec_set_result(o1, i1, x) # vec_set_result(o2, i2, x)

\* the texts of ts in a row, one space between two of them
RECURSIVE JoinSp(_)
JoinSp(ts) ==
    IF ts = <<>> THEN <<>>
    ELSE IF Len(ts) = 1 THEN ts[1]
    ELSE ts[1] \o <<32>> \o JoinSp(Tail(ts))

\* C11: rendering a live vector of any length, 0 included, never panics, and
\* when its elements render the text is #( then the elements' texts with one
\* space between them then ).
C11_VectorRenders ==
    \A v \in issued : LiveVec(v) =>
        /\ render(v).st # "panic"
        /\ (\A j \in 1..VecLen(v) : render(slots[v.a].val.objs[j]).st = "ok") =>
              render(v) = Ok(<<35, 40>>
                             \o JoinSp([j \in 1..VecLen(v) |->
                                           render(slots[v.a].val.objs[j]).out])
                             \o <<41>>)

LivePair(o) == o.k = "H" /\ o \in LiveHandles /\ slots[o.a].val.kind = "Cons"
PairCar(o) == slots[o.a].val.objs[1]
PairCdr(o) == slots[o.a].val.objs[2]

\* the heads along the tail links of the live pair p, and the first tail
\* that is not a live pair
RECURSIVE Heads(_)
Heads(p) == <<PairCar(p)>> \o (IF LivePair(PairCdr(p)) THEN Heads(PairCdr(p)) ELSE <<>>)

RECURSIVE Terminator(_)
Terminator(p) == IF LivePair(PairCdr(p)) THEN Terminator(PairCdr(p)) ELSE PairCdr(p)

\* C12: a live pair renders as ( then the heads along its tail chain with one
\* space between them, then ) when the chain ends in Nil and " . " the
\* terminator's text ) otherwise (whenever the heads and the terminator
\* render); so pair(1, pair(0, Nil)) is (1 0), pair(1, 0) is (1 . 0) and
\* pair(2, pair(1, 0)) is (2 1 . 0).
C12_PairRenders ==
    \A p \in issued : LivePair(p) =>
        LET hs == Heads(p)
            t == Terminator(p)
        IN /\ ((\A j \in 1..Len(hs) : render(hs[j]).st = "ok") /\ render(t).st = "ok") =>
                 render(p) = Ok(<<40>>
                                \o JoinSp([j \in 1..Len(hs) |-> render(hs[j]).out])
                                \o (IF t = Nil THEN <<41>>
                                    ELSE <<32, 46, 32>> \o render(t).out \o <<41>>))
           /\ (hs = <<int(1), int(0)>> /\ t = Nil) =>
                 render(p) = Ok(<<40, 49, 32, 48, 41>>)
           /\ (hs = <<int(1)>> /\ t = int(0)) =>
                 render(p) = Ok(<<40, 49, 32, 46, 32, 48, 41>>)
           /\ (hs = <<int(2), int(1)>> /\ t = int(0)) =>
                 render(p) = Ok(<<40, 50, 32, 49, 32, 46, 32, 48, 41>>)

\* a chain of two pairs that ends in an integer: (2 1 . 0), walked along
\* one tail link and closed with the dotted terminator
C12_Witness ==
    \E p \in issued :
        /\ LivePair(p)
        /\ Heads(p) = <<int(2), int(1)>> /\ Terminator(p) = int(0)
        /\ render(p) = Ok(<<40, 50, 32, 49, 32, 46, 32, 48, 41>>)

\* the references compared: the constants, integers, floats (the NaN too),
\* and every handle given out; the RootedObjects: of an immediate, and of a
\* handle that is rooted
EqObjects == Consts \cup {int(v) : v \in IntInputs}
                    \cup {float(v) : v \in FloatInputs \cup {NaN}} \cup issued
EqRooted == {RootedObject(o) : o \in {x \in EqObjects : x.k = "S" \/ HeldCount(x) > 0}}

SameImmediate(x, y) == x.k = "S" /\ y.k = "S" /\ x.tag = y.tag /\ x.a = y.a
SameHandle(x, y) == x.k = "H" /\ y.k = "H" /\ x.a = y.a /\ x.b = y.b

\* C13: two references are equal exactly when both are immediates of the
\* same tag and payload or both handles of the same slot and generation (so
\* an immediate never equals a handle, and two handles of separately inserted
\* values never are equal); an Object and a RootedObject compare, in either
\* order, as the two Objects do.
C13_EqualityExact ==
    /\ \A x, y \in EqObjects :
          Object_eq(x, y) <=> (SameImmediate(x, y) \/ SameHandle(x, y))
    /\ \A x \in EqObjects, r \in EqRooted :
          /\ Object_eq_RootedObject(x, r) <=> Object_eq(x, r.of)
          /\ RootedObject_eq_Object(r, x) <=> Object_eq(r.of, x)

\* C14: on the pair that cons(a, b) returns, car gives a and cdr gives b, and
\* they give the same for as long as the pair is live; on every reference
\* that is not a live pair (an immediate, a vector, a string, a stale handle)
\* both give None.
C14_CarCdr ==
    /\ [](\A o \in EqObjects : ~LivePair(o) => car(o) = None /\ cdr(o) = None)
    /\ [][/\ \A a, b \in Args : cons(a, b) =>
                \A p \in issued' \ issued : car(p)' = Some(a) /\ cdr(p)' = Some(b)
          /\ \A p \in issued : (LivePair(p) /\ LivePair(p)') =>
                car(p)' = car(p) /\ cdr(p)' = cdr(p)]_vars

\* after a gc(): a live pair whose tail is a live vector or string, which
\* has no car
C14_Witness ==
    /\ last.op = "gc"
    /\ \E p \in issued :
          /\ LivePair(p)
          /\ car(p) = Some(Nil)
          /\ cdr(p).o.k = "H" /\ direct(cdr(p).o).d = "H"
          /\ car(cdr(p).o) = None

\* C15: unescape(escape(s)) = Some(s) for every text s of printable
\* characters, the quote, the backslash, DEL and the C0 controls.
C15_RoundTrip ==
    [][(last.op = "escape" /\ last'.op = "unescape") =>
           /\ last'.obj = escape(last.obj)
           /\ last'.res = Res("Some", last.obj)]_vars

\* escape's result for a text of two controls without a named escape, one of
\* them above 0x1A, was unescaped
C15_Witness ==
    /\ last.op = "unescape"
    /\ last.res = Res("Some", <<28, 1>>)
    /\ last.obj = <<92, 94, 92, 92, 94, 97>>

\* the C0 controls from 0x01 that have no named escape
Unnamed == (1..31) \ {7, 8, 9, 10, 11, 12, 13, 27}

\* C16 as stated: for a text of controls without a named escape, escape
\* gives for each of them \^ and the character of code c + 'a' - 1.
C16_CaretLowercase ==
    (last.op = "escape" /\ \A i \in 1..Len(last.obj) : last.obj[i] \in Unnamed) =>
        /\ Len(last.res.o) = 3 * Len(last.obj)
        /\ \A i \in 1..Len(last.obj) :
              SubSeq(last.res.o, 3 * i - 2, 3 * i) = <<92, 94, last.obj[i] + 97 - 1>>

\* C16, amended: for a text of controls without a named escape, escape gives
\* for each of them \^ and one character: of code c + 'a' - 1 for c from 0x01
\* to 0x1A, and of code c + 'A' - 1 (one of \ ] ^ _) for c from 0x1C to 0x1F.
C16_CaretLetters ==
    (last.op = "escape" /\ \A i \in 1..Len(last.obj) : last.obj[i] \in Unnamed) =>
        /\ Len(last.res.o) = 3 * Len(last.obj)
        /\ \A i \in 1..Len(last.obj) :
              SubSeq(last.res.o, 3 * i - 2, 3 * i) =
                  <<92, 94, IF last.obj[i] <= 26 THEN last.obj[i] + 97 - 1
                            ELSE last.obj[i] + 65 - 1>>

\* escape was called on 0x1F 0x01 and gave \^_\^a
C16_Witness ==
    /\ last.op = "escape"
    /\ last.obj = <<31, 1>>
    /\ last.res.o = <<92, 94, 95, 92, 94, 97>>

\* What the escapes mean, as the claims state it.  The named escapes:
\* \0 \a \b \t \n \v \f \r \e \" \\
NamedEscapes == <<<<48, 0>>, <<97, 7>>, <<98, 8>>, <<116, 9>>, <<110, 10>>,
                  <<118, 11>>, <<102, 12>>, <<114, 13>>, <<101, 27>>,
                  <<34, 34>>, <<92, 92>>>>
IsNamed(c) == \E i \in 1..Len(NamedEscapes) : NamedEscapes[i][1] = c
NamedCode(c) == NamedEscapes[CHOOSE i \in 1..Len(NamedEscapes) : NamedEscapes[i][1] = c][2]

\* the caret targets: ?, a to z, and @ to _ (which has A to Z); a letter is
\* the control code of its place in the alphabet, @ is NUL
CaretTargets == {63} \cup (97..122) \cup (64..95)
CaretCode(t) == IF t = 63 THEN 127
                ELSE IF t \in 97..122 THEN t - 96
                ELSE t - 64

LowerHex == <<48, 49, 50, 51, 52, 53, 54, 55, 56, 57, 97, 98, 99, 100, 101, 102>>
UpperHex == <<48, 49, 50, 51, 52, 53, 54, 55, 56, 57, 65, 66, 67, 68, 69, 70>>
IsHex(c) == \E v \in 1..16 : LowerHex[v] = c \/ UpperHex[v] = c
HexDigitValue(c) == (CHOOSE v \in 1..16 : LowerHex[v] = c \/ UpperHex[v] = c) - 1

RECURSIVE HexValue(_)
HexValue(ds) == IF ds = <<>> THEN 0
                ELSE HexValue(SubSeq(ds, 1, Len(ds) - 1)) * 16 + HexDigitValue(ds[Len(ds)])

\* Leading zeros apart, the digits of a Unicode scalar value: at most six,
\* up to 10FFFF and no surrogate
Significant(ds) == IF Len(ds) = 8 THEN SubSeq(ds, 3, 8) ELSE ds
IsScalarHex(ds) ==
    /\ \A i \in 1..Len(ds) : IsHex(ds[i])
    /\ Len(ds) = 8 => ds[1] = 48 /\ ds[2] = 48
    /\ HexValue(Significant(ds)) <= 1114111
    /\ HexValue(Significant(ds)) \notin 55296..57343

\* the escape at the head of s (s[1] is a backslash): its length, 0 when it
\* is none, and the character it stands for
EscapeLen(s) ==
    IF Len(s) < 2 THEN 0
    ELSE IF IsNamed(s[2]) THEN 2
    ELSE IF s[2] = 94 THEN (IF Len(s) >= 3 /\ s[3] \in CaretTargets THEN 3 ELSE 0)
    ELSE IF s[2] = 117 THEN (IF Len(s) >= 6 /\ IsScalarHex(SubSeq(s, 3, 6)) THEN 6 ELSE 0)
    ELSE IF s[2] = 85 THEN (IF Len(s) >= 10 /\ IsScalarHex(SubSeq(s, 3, 10)) THEN 10 ELSE 0)
    ELSE 0

EscapeCode(s) ==
    IF IsNamed(s[2]) THEN NamedCode(s[2])
    ELSE IF s[2] = 94 THEN CaretCode(s[3])
    ELSE IF s[2] = 117 THEN HexValue(SubSeq(s, 3, 6))
    ELSE HexValue(SubSeq(s, 5, 10))

\* a text is well formed when, read from the left, each backslash that does
\* not belong to an escape before it begins an escape; Decoded is then the
\* text with each escape replaced by its character
RECURSIVE WellFormed(_)
WellFormed(s) ==
    IF s = <<>> THEN TRUE
    ELSE IF s[1] # 92 THEN WellFormed(Tail(s))
    ELSE EscapeLen(s) > 0 /\ WellFormed(SubSeq(s, EscapeLen(s) + 1, Len(s)))

RECURSIVE Decoded(_)
Decoded(s) ==
    IF s = <<>> THEN <<>>
    ELSE IF s[1] # 92 THEN <<s[1]>> \o Decoded(Tail(s))
    ELSE <<EscapeCode(s)>> \o Decoded(SubSeq(s, EscapeLen(s) + 1, Len(s)))

\* C17: unescape returns None exactly when some backslash of the text (read
\* from the left, outside the escapes before it) is followed by nothing, by
\* an unrecognized character, by ^ and no target or one outside ?, a-z and
\* @ to _, by u or U and fewer than 4 or 8 characters or one that is no
\* hexadecimal digit, or by a number that is no Unicode scalar value;
\* otherwise it returns the decoded text, \^ and a letter being the same
\* control code for the upper-case and the lower-case letter and \^@ NUL.
C17_UnescapeFailsExactly ==
    last.op = "unescape" =>
        /\ last.res = (IF WellFormed(last.obj) THEN Res("Some", Decoded(last.obj))
                       ELSE NoString)
        /\ \A c \in 97..122 :
              /\ last.obj = <<92, 94, c>> => last.res = Res("Some", <<c - 96>>)
              /\ last.obj = <<92, 94, c - 32>> => last.res = Res("Some", <<c - 96>>)
        /\ last.obj = <<92, 94, 64>> => last.res = Res("Some", <<0>>)

\* unescape was called on a\U0011FFFF, sixteen times 2^16 and more, and
\* returned None
C17_Witness ==
    /\ last.op = "unescape"
    /\ last.obj = <<97, 92, 85, 48, 48, 49, 49, 70, 70, 70, 70>>
    /\ last.res = NoString

\* C18: vec(len) creates a vector of exactly len elements, all Undefined, and
\* the length of a vector is the same after every step that leaves it live
\* (vec_set, root, clone, release, gc, and the insertions).
C18_VecLengthFixed ==
    [][/\ \A len \in 0..MaxVecLen : vec(len) =>
             \A v \in issued' \ issued :
                 /\ LiveVec(v)' /\ VecLen(v)' = len
                 /\ \A i \in Indices :
                       vec_get(v, i)' = IF i < len THEN Some(Undef) ELSE None
       /\ \A v \in issued : (LiveVec(v) /\ LiveVec(v)') => VecLen(v)' = VecLen(v)]_vars

\* after a gc(): a vector of two elements that a vec_set has changed and that
\* has been through a collection before
C18_Witness ==
    /\ last.op = "gc"
    /\ \E v \in kept :
          /\ LiveVec(v) /\ VecLen(v) = 2
          /\ vec_get(v, 1) # Some(Undef)

\* v is on a cycle: its value is reached from its own fields
OnCycle(v) == v \in LiveHandles /\ v \in Closure(Fields(v) \cap LiveHandles)

\* C19: every gc() returns, with no mark left, after a mark phase that
\* marked each slot at most once (and exactly the reachable ones) and one
\* sweep, whatever the heap graph, cycles included; a value on a cycle that
\* no rooted handle reaches is reclaimed.
C19_GcTerminates ==
    [][last'.op = "gc" =>
          LET r == heap_mark(DOMAIN roots, marks)
          IN /\ r.done /\ last'.res = Unit /\ marks' = {}
             /\ \A i, j \in 1..Len(r.log) : i # j => r.log[i].a # r.log[j].a
             /\ {r.log[i] : i \in 1..Len(r.log)} = Reachable
             /\ \A v \in issued : (OnCycle(v) /\ v \notin Reachable) => Stale(v)'
             /\ \A v \in issued : (OnCycle(v) /\ v \in Reachable) => ~Stale(v)']_vars

\* after a gc(): a rooted vector that contains itself was traversed and is
\* live, and a value was reclaimed
C19_Witness ==
    /\ last.op = "gc" /\ last.res = Unit
    /\ \E v \in issued : LiveVec(v) /\ OnCycle(v) /\ v \in Fields(v) /\ HeldCount(v) > 0
    /\ \E h \in issued : Stale(h)

\* C20: gc() leaves what it keeps as it was: a slot that holds a value after
\* the collection has its index, generation and contents from before, every
\* handle that resolves afterwards resolves to the same value, every
\* reachable handle does, and the Root Table (and the caller's
\* RootedObjects) are unchanged.
C20_GcFrame ==
    [][last'.op = "gc" =>
          /\ roots' = roots /\ held' = held /\ issued' = issued
          /\ Len(slots') = Len(slots)
          /\ \A i \in 1..Len(slots) : slots'[i].occ => slots'[i] = slots[i]
          /\ \A h \in issued : direct(h)'.d = "H" => direct(h)' = direct(h)
          /\ \A h \in issued : h \in Reachable =>
                direct(h).d = "H" /\ direct(h)' = direct(h)]_vars

\* after a gc(): the value of slot 2 is kept in slot 2, with the stale handle
\* of the reclaimed slot 1 among its fields, and its two registrations
C20_Witness ==
    /\ last.op = "gc"
    /\ Len(slots) = 2 /\ ~slots[1].occ /\ slots[2].occ
    /\ \E h \in issued :
          /\ h.a = 2 /\ h \in LiveHandles /\ RootCount(h) = 2
          /\ \E x \in Fields(h) : x.k = "H" /\ x.a = 1 /\ Stale(x)

\* C21: a stale handle held by a value that the mark phase reaches is no
\* edge: in a gc() it stays stale, the value that is now in its slot is
\* reclaimed unless a valid handle reaches it, and heapsize() is afterwards
\* the number of values reachable through valid handles.
C21_StaleEdgeNotTraced ==
    [][last'.op = "gc" =>
          /\ \A h \in Reachable : \A x \in Fields(h) :
                (x.k = "H" /\ Stale(x)) =>
                    /\ Stale(x)' /\ direct(x)'.d = "D"
                    /\ \A c \in LiveHandles :
                          (c.a = x.a /\ c \notin Reachable) => Stale(c)'
          /\ heapsize' = Cardinality(Reachable)
          /\ LiveHandles' = Reachable]_vars

\* after a gc(): the rooted pair of slot 2 was made, holding the stale handle
\* of slot 1, while slot 1 held its second value; that value is reclaimed
C21_Witness ==
    /\ last.op = "gc"
    /\ heapsize = 1
    /\ Len(slots) = 2 /\ ~slots[1].occ /\ slots[1].gen = 2
    /\ \E h \in issued :
          /\ LivePair(h) /\ h.a = 2 /\ HeldCount(h) > 0
          /\ PairCar(h) = ObjH(1, 0)
    /\ ObjH(1, 1) \in issued /\ Stale(ObjH(1, 1))

\* C22: rendering returns for every value built through the operations, a
\* vector that holds itself, directly or through pairs and vectors, included:
\* no rendering recurses without end or walks a tail chain without end.
C22_RenderTerminates ==
    \A o \in issued : render(o).st # "overflow" /\ render(o).st # "diverge"

====
